---- MODULE Spec2Model ----
(***************************************************************************)
(* HyperClean Bridge: the conversation-turn routing of the SMS webhook     *)
(* (POST /twilio/inbound), the voice webhook (POST /voice/ai) and the      *)
(* Conversation Relay socket (/ws/relay), with the completion provider,    *)
(* the synthesis provider, the outbound SMS send and the observer          *)
(* broadcast as the environment.                                           *)
(*                                                                         *)
(* Strings are sequences of chunks (a chunk is a TLA+ string; provider     *)
(* texts and message bodies use one-character chunks).  JavaScript values  *)
(* are tagged records: undefined, a string, or an array.                   *)
(***************************************************************************)
EXTENDS Integers, Sequences, FiniteSets, TLC

\* Number of turn slots: the turns that can be in flight at once.
MaxTurns == 2
\* Longest provider text, in characters.
MaxTextLen == 1
\* Number of observer sockets.
MaxObservers == 1

Turns == 1..MaxTurns
Observers == 1..MaxObservers

-----------------------------------------------------------------------------
(* JavaScript values *)

Undefined == [t |-> "undefined"]
Null == [t |-> "null"]
Str(s) == [t |-> "string", v |-> s]
Arr(s) == [t |-> "array", v |-> s]

\* JavaScript truthiness of undefined, strings and arrays.
Truthy(x) ==
  CASE x.t \in {"undefined", "null"} -> FALSE
    [] x.t = "string" -> x.v # <<>>
    [] OTHER -> TRUE

\* String(x) / template interpolation `${x}`.
ToText(x) ==
  CASE x.t = "undefined" -> <<"undefined">>
    [] x.t = "null" -> <<"null">>
    [] x.t = "string" -> x.v
    [] OTHER -> IF x.v = <<>> THEN <<>> ELSE x.v[1]

\* Outcome of a block of statements: it returns a value or it throws.
Return(v) == [thrown |-> FALSE, val |-> v]
Throw == [thrown |-> TRUE]

\* Settled promise of an async function.
Resolved(v) == [state |-> "resolved", val |-> v]
Rejected == [state |-> "rejected"]

-----------------------------------------------------------------------------
(* Strings *)

Chars == {" ", "a"}

RECURSIVE StringsUpTo(_)
StringsUpTo(n) ==
  IF n = 0 THEN {<<>>}
  ELSE StringsUpTo(n - 1) \cup
       {Append(s, c) : s \in {x \in StringsUpTo(n - 1) : Len(x) = n - 1}, c \in Chars}

IsSpace(c) == c \in {" ", "\t", "\n"}

RECURSIVE trimStart(_)
trimStart(s) ==
  IF s # <<>> /\ IsSpace(Head(s)) THEN trimStart(Tail(s)) ELSE s

RECURSIVE trimEnd(_)
trimEnd(s) ==
  IF s # <<>> /\ IsSpace(s[Len(s)]) THEN trimEnd(SubSeq(s, 1, Len(s) - 1)) ELSE s

\* String.prototype.trim
trim(s) == trimEnd(trimStart(s))

UpperCase == <<"A","B","C","D","E","F","G","H","I","J","K","L","M",
               "N","O","P","Q","R","S","T","U","V","W","X","Y","Z">>
LowerCase == <<"a","b","c","d","e","f","g","h","i","j","k","l","m",
               "n","o","p","q","r","s","t","u","v","w","x","y","z">>
Digits == {"0","1","2","3","4","5","6","7","8","9"}

LowerChar(c) ==
  IF \E i \in 1..26 : UpperCase[i] = c
  THEN LowerCase[CHOOSE i \in 1..26 : UpperCase[i] = c]
  ELSE c

\* String.prototype.toLowerCase
toLowerCase(s) == [i \in 1..Len(s) |-> LowerChar(s[i])]

\* \w of a regular expression
IsWordChar(c) ==
  \/ \E i \in 1..26 : UpperCase[i] = c \/ LowerCase[i] = c
  \/ c \in Digits
  \/ c = "_"

\* /\b(w)\b/.test(s) for a keyword w that begins and ends with a word character
MatchesWord(s, w) ==
  \E i \in 1..(Len(s) - Len(w) + 1) :
    /\ SubSeq(s, i, i + Len(w) - 1) = w
    /\ (i = 1 \/ ~IsWordChar(s[i - 1]))
    /\ (i + Len(w) - 1 = Len(s) \/ ~IsWordChar(s[i + Len(w)]))

\* String.prototype.includes
includes(s, sub) ==
  \E i \in 1..(Len(s) - Len(sub) + 1) : SubSeq(s, i, i + Len(sub) - 1) = sub

-----------------------------------------------------------------------------
(* Intent classifier and prompt builder (SMS path) *)

AppointmentWords ==
  { <<"s","c","h","e","d","u","l","e">>,
    <<"a","p","p","o","i","n","t","m","e","n","t">>,
    <<"b","o","o","k">>,
    <<"b","o","o","k","i","n","g">>,
    <<"c","l","e","a","n","i","n","g"," ","d","a","t","e">> }
SalesWords ==
  { <<"q","u","o","t","e">>,
    <<"e","s","t","i","m","a","t","e">>,
    <<"p","r","i","c","e">>,
    <<"r","a","t","e">> }
SupportWords ==
  { <<"p","r","o","b","l","e","m">>,
    <<"i","s","s","u","e">>,
    <<"c","o","m","p","l","a","i","n","t">>,
    <<"s","u","p","p","o","r","t">>,
    <<"h","e","l","p">> }

\* Faulty variant: the price/quote test runs before the appointment test.
classifyIntentSalesFirst(body) ==
  LET lower == toLowerCase(ToText(IF Truthy(body) THEN body ELSE Str(<<>>)))
  IN  IF \E w \in SalesWords : MatchesWord(lower, w) THEN "sales"
      ELSE IF \E w \in AppointmentWords : MatchesWord(lower, w) THEN "appointment"
      ELSE IF \E w \in SupportWords : MatchesWord(lower, w) THEN "support"
      ELSE "general"

classifyIntent(body) ==
  LET lower == toLowerCase(ToText(IF Truthy(body) THEN body ELSE Str(<<>>)))
  IN  IF \E w \in AppointmentWords : MatchesWord(lower, w) THEN "appointment"
      ELSE IF \E w \in SalesWords : MatchesWord(lower, w) THEN "sales"
      ELSE IF \E w \in SupportWords : MatchesWord(lower, w) THEN "support"
      ELSE "general"

\* The instruction clause of each intent (the typographic apostrophe of the
\* source's default clause is written as ').
Instructions(intent) ==
  CASE intent = "appointment" ->
         "The customer would like to schedule a cleaning appointment. Provide available dates and times, ask for their preferred appointment window, and confirm the booking."
    [] intent = "sales" ->
         "The customer is asking about prices or quotes. Provide a brief overview of services and approximate rates, then invite them to schedule a consultation for a precise estimate."
    [] intent = "support" ->
         "The customer has a problem or complaint. Acknowledge their issue empathetically, gather any necessary details, and assure them that a human team member will follow up if needed."
    [] OTHER ->
         "Answer the customer's question politely and helpfully. Offer to assist with scheduling or quotes if appropriate."

\* Faulty variant: the message is trimmed before it is interpolated, and the
\* sender is repeated in the closing sentence.
buildPromptReworded(intent, from, body) ==
  <<"You are ", "HyperClean's AI assistant.", " A customer with number ">>
    \o ToText(from)
    \o <<" sent the following message:\n\n">>
    \o trim(ToText(body))
    \o <<"\n\n", Instructions(intent), " Respond to ">>
    \o ToText(from)
    \o <<" in a friendly and professional tone.">>

buildPrompt(intent, from, body) ==
  <<"You are ", "HyperClean's AI assistant.", " A customer with number ">>
    \o ToText(from)
    \o <<" sent the following message:\n\n">>
    \o ToText(body)
    \o <<"\n\n", Instructions(intent), " Respond in a friendly and professional tone.">>

-----------------------------------------------------------------------------
(* Completion orchestrator, SMS path *)

SmsEmptyFallback ==
  <<"Thank you for contacting HyperClean. We will get back to you shortly.">>
SmsErrorFallback ==
  <<"Thank you for reaching out to HyperClean. We will get back to you soon.">>

\* What anthropic.messages.create settles to, as generateClaudeResponse reads it:
\* a rejection, or a message whose choices[0].message.content is absent, a
\* string, or a value that is no string.
SmsProviderOutcomes ==
  {[k |-> "throw"]}
    \cup {[k |-> "msg", content |-> c] :
            c \in {Undefined, Arr(<<>>)} \cup {Str(s) : s \in StringsUpTo(MaxTextLen)}}

\* The try block of generateClaudeResponse after the provider call settles.
ClaudeTryBlock(o) ==
  IF o.k = "throw" THEN Throw
  ELSE IF o.content.t = "undefined" THEN Return(SmsEmptyFallback)
  ELSE IF o.content.t # "string" THEN Throw
  ELSE LET reply == trim(o.content.v)
       IN  Return(IF reply # <<>> THEN reply ELSE SmsEmptyFallback)

\* Faulty variant: no catch block, a thrown error rejects the promise.
generateClaudeResponseNoCatch(o) ==
  LET r == ClaudeTryBlock(o)
  IN  IF r.thrown THEN Rejected ELSE Resolved(r.val)

\* Faulty variant: the catch block returns the same string as the empty-text case.
generateClaudeResponseOneFallback(o) ==
  LET r == ClaudeTryBlock(o)
  IN  IF r.thrown THEN Resolved(SmsEmptyFallback) ELSE Resolved(r.val)

generateClaudeResponse(o) ==
  LET r == ClaudeTryBlock(o)
  IN  IF r.thrown THEN Resolved(SmsErrorFallback) ELSE Resolved(r.val)

sendTwilioSms(to, from, body) ==
  [op |-> "send", to |-> to, from |-> from, body |-> body]

-----------------------------------------------------------------------------
(* Completion orchestrator, voice and relay path (providers/claude) *)

VoiceFallback ==
  <<"I'd be happy to help you book a cleaning", ". Let me text you our booking link.">>

DeepMarkers == { <<"$","1","4","9">>, <<"d","e","e","p"," ","c","l","e","a","n">> }
StandardMarkers ==
  { <<"$","1","2","9">>, <<"s","t","a","n","d","a","r","d"," ","c","l","e","a","n">> }

DeepTotal == 149
StandardTotal == 129

\* Faulty variant: the standard markers are tested before the deep markers.
extractQuoteStandardFirst(text) ==
  LET has(m) == IF text.t = "string" THEN includes(text.v, m)
                ELSE \E i \in 1..Len(text.v) : text.v[i] = m
  IN  IF \E m \in StandardMarkers : has(m)
      THEN [t |-> "object", total |-> StandardTotal, service |-> "standard"]
      ELSE IF \E m \in DeepMarkers : has(m)
      THEN [t |-> "object", total |-> DeepTotal, service |-> "deep"]
      ELSE Null

\* extractQuote(text, context) for a string; `includes` of an array looks for an
\* element equal to the marker.
extractQuote(text) ==
  LET has(m) == IF text.t = "string" THEN includes(text.v, m)
                ELSE \E i \in 1..Len(text.v) : text.v[i] = m
  IN  IF \E m \in DeepMarkers : has(m)
      THEN [t |-> "object", total |-> DeepTotal, service |-> "deep"]
      ELSE IF \E m \in StandardMarkers : has(m)
      THEN [t |-> "object", total |-> StandardTotal, service |-> "standard"]
      ELSE Null

\* What anthropic.messages.create settles to, as getCompletion reads it: a
\* rejection, a response without content[0], or a response whose
\* content[0].text is absent, a string, or an array.
\* Provider texts that hold a character XML reserves for markup.
MarkupTexts == {<<"<", "&">>}

VoiceProviderOutcomes ==
  {[k |-> "throw"], [k |-> "nocontent"]}
    \cup {[k |-> "msg", text |-> x] :
            x \in {Undefined, Arr(<<>>), Str(<<"$","1","4","9">>)}
                    \cup {Str(s) : s \in MarkupTexts}
                    \cup {Str(s) : s \in StringsUpTo(MaxTextLen)}}

\* The try block of getCompletion after the provider call settles.
CompletionTryBlock(o) ==
  IF o.k \in {"throw", "nocontent"} THEN Throw
  ELSE IF o.text.t = "undefined" THEN Throw
  ELSE Return([text |-> o.text, quote |-> extractQuote(o.text)])

\* Faulty variant: no catch block, a thrown error rejects the promise.
getCompletionNoCatch(o) ==
  LET r == CompletionTryBlock(o)
  IN  IF r.thrown THEN Rejected ELSE Resolved(r.val)

getCompletion(o) ==
  LET r == CompletionTryBlock(o)
  IN  IF r.thrown
      THEN Resolved([text |-> Str(VoiceFallback), quote |-> Undefined])
      ELSE Resolved(r.val)

streamCompletion(o) == getCompletion(o)

-----------------------------------------------------------------------------
(* Audio resolution (tts) *)

RenderUrl == "https://bridge.example"

\* The hexadecimal code that stands for a chunk of text inside a digest.
HexCode(c) ==
  CASE c = " " -> "20"
    [] c = "$" -> "24"
    [] c = "&" -> "26"
    [] c = "1" -> "31"
    [] c = "4" -> "34"
    [] c = "9" -> "39"
    [] c = "<" -> "3c"
    [] c = "a" -> "61"
    [] c = VoiceFallback[1] -> "f1"
    [] c = VoiceFallback[2] -> "f2"
    [] OTHER -> "00"

\* crypto.createHash('md5').update(text).digest('hex'): a digest is a string
\* over 0-9a-f, and texts that differ have digests that differ.
textHash(text) == [i \in 1..Len(text) |-> HexCode(text[i])]

AudioUrl(text) == Str(<<RenderUrl, "/audio/">> \o textHash(text) \o <<".mp3">>)

-----------------------------------------------------------------------------
(* State *)

VARIABLES
  pc,       \* pc[t]: where the handler of turn t stands
  ev,       \* ev[t]: the inbound event of turn t
  comp,     \* comp[t]: the completion the handler of turn t holds
  log,      \* log[t]: the responses and provider calls of turn t, in order
  clients,  \* clients[o]: readyState of observer socket o, or "absent"
  cache,    \* hashes that have a file in CACHE_DIR
  apiKey,   \* whether ELEVENLABS_API_KEY is set
  probe     \* the last direct call of a pure function: its arguments and result

vars == <<pc, ev, comp, log, clients, cache, apiKey, probe>>

NoEvent == [chan |-> "none"]
NoCall == [fn |-> "none"]

PhoneNumbers == {Str(<<"+1555">>), Str(<<"+1666">>)}
TwilioNumbers == {Str(<<"+1777">>)}
Bodies == {Str(<<"b","o","o","k">>)}

SmsRequests ==
  [chan : {"sms"},
   From : PhoneNumbers \cup {Undefined, Str(<<>>)},
   To : TwilioNumbers \cup {Undefined, Str(<<>>)},
   Body : Bodies \cup {Undefined, Str(<<>>)}]

VoiceRequests ==
  [chan : {"voice"},
   From : {Str(<<"+1555">>)},
   To : {Str(<<"+1777">>)},
   CallSid : {Undefined, Str(<<>>), Str(<<"CA1">>)},
   SpeechResult : {Undefined, Str(<<"H","i">>)}]

\* A relay frame: bytes that are no JSON, the JSON null, a message without
\* speech, a message with speech.text.
RelayFrames ==
  [chan : {"relay"}, data : {"garbage", "null"}]
    \cup [chan : {"relay"}, data : {"message"},
          speech : {Undefined, Str(<<"H","i">>)}]

\* What CACHE_DIR holds when the process starts: nothing, or the asset of a
\* text an earlier run of the service synthesized.
StartCaches == {{}, {textHash(<<"a">>)}}

\* The process after start-up: no turn, no observer.
Started ==
  /\ pc = [t \in Turns |-> "idle"]
  /\ ev = [t \in Turns |-> NoEvent]
  /\ comp = [t \in Turns |-> Undefined]
  /\ log = [t \in Turns |-> <<>>]
  /\ clients = [o \in Observers |-> "absent"]
  /\ cache \in StartCaches
  /\ apiKey \in BOOLEAN

Init == Started /\ probe = NoCall

\* Turn slots are taken in order.
Free(t) == pc[t] = "idle" /\ (IF t = 1 THEN TRUE ELSE pc[t - 1] # "idle")

Emit(t, es) == log' = [log EXCEPT ![t] = log[t] \o es]

-----------------------------------------------------------------------------
(* Observers and broadcast *)

ObserverConnect(o) ==
  /\ clients[o] = "absent"
  /\ clients' = [clients EXCEPT ![o] = "open"]
  /\ UNCHANGED <<pc, ev, comp, log, cache, apiKey, probe>>

ObserverClose(o) ==
  /\ clients[o] = "open"
  /\ clients' = [clients EXCEPT ![o] = "closed"]
  /\ UNCHANGED <<pc, ev, comp, log, cache, apiKey, probe>>

ObserverRemove(o) ==
  /\ clients[o] = "closed"
  /\ clients' = [clients EXCEPT ![o] = "absent"]
  /\ UNCHANGED <<pc, ev, comp, log, cache, apiKey, probe>>

\* Faulty variant: a delivery that fails throws out of the loop, so the
\* observers after it are not visited and the caller's try block is left.
broadcastAborting(payload, failing) ==
  LET bad == {o \in Observers : clients[o] = "open" /\ o \in failing}
  IN  [op |-> "broadcast", payload |-> payload, states |-> clients,
       sentTo |-> {o \in Observers :
                     clients[o] = "open" /\ \A b \in bad : o <= b},
       failed |-> {o \in bad : \A b \in bad : o <= b},
       thrown |-> bad # {}]

\* broadcast(payload): send is called on every client of wss.clients whose
\* readyState is OPEN; failing are the observers to whom the data, once handed
\* to the socket, does not get through.  states is what readyState each
\* observer had, thrown whether the loop was left by an exception.
broadcast(payload, failing) ==
  [op |-> "broadcast", payload |-> payload, states |-> clients,
   sentTo |-> {o \in Observers : clients[o] = "open"},
   failed |-> {o \in Observers : clients[o] = "open" /\ o \in failing},
   thrown |-> FALSE]

-----------------------------------------------------------------------------
(* POST /twilio/inbound *)

\* Faulty variant: the Body is not validated.
SmsValidIgnoringBody(req) == Truthy(req.From) /\ Truthy(req.To)

SmsValid(req) == Truthy(req.From) /\ Truthy(req.To) /\ Truthy(req.Body)

\* Faulty variant: the acknowledgment is written after the provider call is made.
SmsAcceptLate(req) ==
  << [op |-> "complete",
      prompt |-> buildPrompt(classifyIntent(req.Body), req.From, req.Body)],
     [op |-> "respond", status |-> 200, body |-> <<"<Response></Response>">>] >>

\* Lines 217-223 up to the await of the provider call.
SmsAccept(req) ==
  << [op |-> "respond", status |-> 200, body |-> <<"<Response></Response>">>],
     [op |-> "complete",
      prompt |-> buildPrompt(classifyIntent(req.Body), req.From, req.Body)] >>

SmsInbound(t, req) ==
  /\ Free(t)
  /\ ev' = [ev EXCEPT ![t] = req]
  /\ IF ~SmsValid(req)
     THEN /\ Emit(t, <<[op |-> "respond", status |-> 400, body |-> <<"Invalid request">>]>>)
          /\ pc' = [pc EXCEPT ![t] = "done"]
     ELSE /\ Emit(t, SmsAccept(req))
          /\ pc' = [pc EXCEPT ![t] = "sms_completing"]
  /\ UNCHANGED <<comp, clients, cache, apiKey, probe>>

\* Faulty variant: from and to are kept in variables shared by all requests,
\* so a send uses the addresses of the request that arrived last.
SmsSendArgsShared(t, text) ==
  LET last == CHOOSE u \in Turns :
                pc[u] # "idle" /\ \A w \in Turns : pc[w] # "idle" => w <= u
  IN  sendTwilioSms(ev[last].From, ev[last].To, text)

SmsSendArgs(t, text) == sendTwilioSms(ev[t].From, ev[t].To, text)

SmsCompletionSettles(t, o) ==
  /\ pc[t] = "sms_completing"
  /\ LET r == generateClaudeResponse(o)
     IN  IF r.state = "resolved"
         THEN /\ comp' = [comp EXCEPT ![t] = Str(r.val)]
              /\ Emit(t, <<[op |-> "completed", outcome |-> o, result |-> r],
                           SmsSendArgs(t, r.val)>>)
              /\ pc' = [pc EXCEPT ![t] = "sms_sending"]
         ELSE /\ Emit(t, <<[op |-> "completed", outcome |-> o, result |-> r]>>)
              /\ pc' = [pc EXCEPT ![t] = "done"]
              /\ UNCHANGED comp
  /\ UNCHANGED <<ev, clients, cache, apiKey, probe>>

\* Lines 226-228; an exception of the first broadcast leaves the try block.
SmsBroadcasts(t, failing) ==
  LET first == broadcast([type |-> "inbound", from |-> ev[t].From, to |-> ev[t].To,
                          body |-> ev[t].Body], failing)
      second == broadcast([type |-> "outbound", from |-> ev[t].To, to |-> ev[t].From,
                           body |-> comp[t]], failing)
  IN  IF first.thrown THEN <<first>> ELSE <<first, second>>

SmsSendSettles(t, ok, failing) ==
  /\ pc[t] = "sms_sending"
  /\ IF ok
     THEN Emit(t, <<[op |-> "sent", ok |-> TRUE]>> \o SmsBroadcasts(t, failing))
     ELSE Emit(t, <<[op |-> "sent", ok |-> FALSE]>>)
  /\ pc' = [pc EXCEPT ![t] = "done"]
  /\ UNCHANGED <<ev, comp, clients, cache, apiKey, probe>>

-----------------------------------------------------------------------------
(* generateAudio *)

\* generateAudio up to its first await: it settles at once (no credential, a
\* text md5 cannot digest, a cache hit) or it is waiting for fetch.
\* Faulty variant: the cache is not consulted.
generateAudioStartNoCache(text) ==
  IF ~apiKey THEN [k |-> "settled", p |-> Resolved(Null)]
  ELSE IF text.t # "string" THEN [k |-> "settled", p |-> Rejected]
  ELSE [k |-> "fetch"]

generateAudioStart(text) ==
  IF ~apiKey THEN [k |-> "settled", p |-> Resolved(Null)]
  ELSE IF text.t # "string" THEN [k |-> "settled", p |-> Rejected]
  ELSE IF textHash(text.v) \in cache
       THEN [k |-> "settled", p |-> Resolved(AudioUrl(text.v))]
       ELSE [k |-> "fetch"]

\* The call of generateAudio as the log records it, with what CACHE_DIR holds
\* for the text at that moment.
ResolveCall(text) ==
  [op |-> "resolve", text |-> text,
   cached |-> text.t = "string" /\ textHash(text.v) \in cache]

\* A file of CACHE_DIR is deleted from outside the process.
CachePurge ==
  /\ \E h \in cache : cache' = cache \ {h}
  /\ UNCHANGED <<pc, ev, comp, log, clients, apiKey, probe>>

FetchOutcomes == {"throw", "notok", "ok"}
BufferOutcomes == {"throw", "writefail", "ok"}

-----------------------------------------------------------------------------
(* POST /voice/ai and the /ws/relay message handler *)

XmlProlog == "<?xml version=\"1.0\" encoding=\"UTF-8\"?>"

PlayTwiml(audioUrl) ==
  <<XmlProlog, "<Response>", "<Play>">> \o ToText(audioUrl)
    \o <<"</Play>", "</Response>">>

SayTwiml(text) ==
  <<XmlProlog, "<Response>", "<Say voice=\"alice\">">> \o ToText(text)
    \o <<"</Say>", "</Response>">>

VoiceErrorTwiml ==
  <<XmlProlog, "<Response>", "<Say>",
    "I apologize, but I need to transfer you. One moment.",
    "</Say>", "</Response>">>

\* Faulty variant: the handler has no catch block and writes no response.
VoiceNoCatch == [op |-> "unhandled"]

\* The catch block of the voice handler: lines 38-42.
VoiceCatch == [op |-> "respond", status |-> 200, body |-> VoiceErrorTwiml]

\* security.validateTwilio
validateTwilio(req) == Truthy(req.CallSid)

\* What the handler writes once the completion c is held and generateAudio has
\* settled to p (p is Resolved(Null) when the relay handler skipped the call).
\* Faulty variant: the markup plays audioUrl without testing it.
VoiceResponseAlwaysPlay(c, p) ==
  IF p.state = "rejected"
  THEN [op |-> "respond", status |-> 200, body |-> VoiceErrorTwiml]
  ELSE [op |-> "respond", status |-> 200, body |-> PlayTwiml(p.val)]

VoiceResponse(c, p) ==
  IF p.state = "rejected"
  THEN VoiceCatch
  ELSE [op |-> "respond", status |-> 200,
        body |-> IF Truthy(p.val) THEN PlayTwiml(p.val) ELSE SayTwiml(c.text)]

\* Faulty variant: on a failure the handler closes the socket and writes no
\* frame.
RelayCloseOnFailure == [op |-> "close"]

\* The frame the catch block of the relay handler writes: lines 102-105.
RelayErrorFrame == [op |-> "frame", error |-> "Processing failed"]

RelayResponse(c, p) ==
  IF p.state = "rejected"
  THEN RelayErrorFrame
  ELSE [op |-> "frame", text |-> c.text, audioUrl |-> p.val, quote |-> c.quote]

Response(t, c, p) ==
  IF ev[t].chan = "voice" THEN VoiceResponse(c, p) ELSE RelayResponse(c, p)

\* The catch block of the handler of turn t.
HandlerCatch(t) ==
  IF ev[t].chan = "voice" THEN VoiceCatch ELSE RelayErrorFrame

VoiceInbound(t, req) ==
  /\ Free(t)
  /\ ev' = [ev EXCEPT ![t] = req]
  /\ IF ~validateTwilio(req)
     THEN /\ Emit(t, <<[op |-> "respond", status |-> 400, body |-> <<"Invalid request">>]>>)
          /\ pc' = [pc EXCEPT ![t] = "done"]
     ELSE /\ Emit(t, <<[op |-> "complete",
                        text |-> IF Truthy(req.SpeechResult) THEN req.SpeechResult
                                 ELSE Str(<<"Hello">>)]>>)
          /\ pc' = [pc EXCEPT ![t] = "completing"]
  /\ UNCHANGED <<comp, clients, cache, apiKey, probe>>

RelayMessage(t, frame) ==
  /\ Free(t)
  /\ ev' = [ev EXCEPT ![t] = frame]
  /\ IF frame.data # "message"
     THEN /\ Emit(t, <<RelayErrorFrame>>)
          /\ pc' = [pc EXCEPT ![t] = "done"]
     ELSE /\ Emit(t, <<[op |-> "complete",
                        text |-> IF Truthy(frame.speech) THEN frame.speech
                                 ELSE Str(<<>>)]>>)
          /\ pc' = [pc EXCEPT ![t] = "completing"]
  /\ UNCHANGED <<comp, clients, cache, apiKey, probe>>

\* Faulty variant: the voice handler does not await generateAudio; it writes
\* its response with no audio URL while the resolution has not been made.
CallsGenerateAudioNotAwaited(t, c) == ev[t].chan = "relay" /\ Truthy(c.text)

\* Whether the handler of turn t calls generateAudio for the completion c.
CallsGenerateAudio(t, c) == ev[t].chan = "voice" \/ Truthy(c.text)

CompletionSettles(t, o) ==
  /\ pc[t] = "completing"
  /\ LET r == IF ev[t].chan = "voice" THEN getCompletion(o) ELSE streamCompletion(o)
         done == [op |-> "completed", outcome |-> o, result |-> r]
     IN  IF r.state = "rejected"
         THEN /\ Emit(t, <<done, HandlerCatch(t)>>)
              /\ pc' = [pc EXCEPT ![t] = "done"]
              /\ UNCHANGED comp
         ELSE /\ comp' = [comp EXCEPT ![t] = r.val]
              /\ IF ~CallsGenerateAudio(t, r.val)
                 THEN /\ Emit(t, <<done, Response(t, r.val, Resolved(Null))>>)
                      /\ pc' = [pc EXCEPT ![t] = "done"]
                 ELSE LET a == generateAudioStart(r.val.text)
                      IN  IF a.k = "settled"
                          THEN /\ Emit(t, <<done, ResolveCall(r.val.text),
                                            [op |-> "audio", text |-> r.val.text, result |-> a.p],
                                            Response(t, r.val, a.p)>>)
                               /\ pc' = [pc EXCEPT ![t] = "done"]
                          ELSE /\ Emit(t, <<done, ResolveCall(r.val.text),
                                            [op |-> "synthesize", text |-> r.val.text]>>)
                               /\ pc' = [pc EXCEPT ![t] = "fetching"]
  /\ UNCHANGED <<ev, clients, cache, apiKey, probe>>

\* generateAudio after fetch settles: lines 34 and 40-43.
SynthFetchSettles(t, f) ==
  /\ pc[t] = "fetching"
  /\ IF f = "ok"
     THEN /\ pc' = [pc EXCEPT ![t] = "buffering"]
          /\ UNCHANGED log
     ELSE /\ Emit(t, <<[op |-> "audio", text |-> comp[t].text, result |-> Resolved(Null)],
                       Response(t, comp[t], Resolved(Null))>>)
          /\ pc' = [pc EXCEPT ![t] = "done"]
  /\ UNCHANGED <<ev, comp, clients, cache, apiKey, probe>>

\* Faulty variant: every call writes a file of its own.
cacheFilePerCall(t, text) == textHash(text) \o <<"-", ToString(t)>>

\* The entry of CACHE_DIR the call of turn t writes: `${textHash}.mp3`, line 13.
cacheFile(t, text) == textHash(text)

\* generateAudio after response.buffer() settles: lines 35-43.
SynthBufferSettles(t, b) ==
  /\ pc[t] = "buffering"
  /\ LET p == IF b = "ok" THEN Resolved(AudioUrl(comp[t].text.v)) ELSE Resolved(Null)
         file == cacheFile(t, comp[t].text.v)
         written == IF b = "ok"
                    THEN <<[op |-> "write", text |-> comp[t].text, file |-> file]>>
                    ELSE <<>>
     IN  /\ cache' = IF b = "ok" THEN cache \cup {file} ELSE cache
         /\ Emit(t, written \o
                      <<[op |-> "audio", text |-> comp[t].text, result |-> p],
                        Response(t, comp[t], p)>>)
  /\ pc' = [pc EXCEPT ![t] = "done"]
  /\ UNCHANGED <<ev, comp, clients, apiKey, probe>>

-----------------------------------------------------------------------------

Next ==
  \/ \E t \in Turns, req \in SmsRequests : SmsInbound(t, req)
  \/ \E t \in Turns, o \in SmsProviderOutcomes : SmsCompletionSettles(t, o)
  \/ \E t \in Turns, ok \in BOOLEAN, failing \in SUBSET Observers :
       SmsSendSettles(t, ok, failing)
  \/ \E o \in Observers : ObserverConnect(o)
  \/ \E o \in Observers : ObserverClose(o)
  \/ \E o \in Observers : ObserverRemove(o)
  \/ \E t \in Turns, req \in VoiceRequests : VoiceInbound(t, req)
  \/ \E t \in Turns, frame \in RelayFrames : RelayMessage(t, frame)
  \/ \E t \in Turns, o \in VoiceProviderOutcomes : CompletionSettles(t, o)
  \/ \E t \in Turns, f \in FetchOutcomes : SynthFetchSettles(t, f)
  \/ \E t \in Turns, b \in BufferOutcomes : SynthBufferSettles(t, b)
  \/ CachePurge

Spec == Init /\ [][Next]_vars

-----------------------------------------------------------------------------
(* The voice and relay channels, with every provider call settling *)

NextVoice ==
  \/ \E t \in Turns, req \in VoiceRequests : VoiceInbound(t, req)
  \/ \E t \in Turns, frame \in RelayFrames : RelayMessage(t, frame)
  \/ \E t \in Turns, o \in VoiceProviderOutcomes : CompletionSettles(t, o)
  \/ \E t \in Turns, f \in FetchOutcomes : SynthFetchSettles(t, f)
  \/ \E t \in Turns, b \in BufferOutcomes : SynthBufferSettles(t, b)

\* Every promise a handler awaits settles: the completion call, the fetch of
\* the synthesis provider, the read of its body.
ProviderCallsSettle ==
  \A t \in Turns :
    /\ WF_vars(\E o \in VoiceProviderOutcomes : CompletionSettles(t, o))
    /\ WF_vars(\E f \in FetchOutcomes : SynthFetchSettles(t, f))
    /\ WF_vars(\E b \in BufferOutcomes : SynthBufferSettles(t, b))

SpecVoiceLive == Init /\ [][NextVoice]_vars /\ ProviderCallsSettle

-----------------------------------------------------------------------------
(* Direct calls of the pure functions: classifyIntent, extractQuote,       *)
(* buildPrompt                                                             *)

\* Longest argument text, in words.
MaxWords == 3

\* The texts of at most n words of vocab, joined by single spaces.
RECURSIVE Phrases(_, _)
Phrases(vocab, n) ==
  IF n = 0 THEN {<<>>}
  ELSE LET shorter == Phrases(vocab, n - 1)
       IN  shorter \cup
           {IF p = <<>> THEN w ELSE p \o <<" ">> \o w : p \in shorter, w \in vocab}

\* Words of message bodies: keywords of each group (one in capitals), a keyword
\* inside a longer word, the two halves of "cleaning date", and a word of no
\* group.
BodyWords ==
  { <<"b","o","o","k">>, <<"Q","U","O","T","E">>, <<"h","e","l","p">>,
    <<"b","o","o","k","e","d">>, <<"c","l","e","a","n","i","n","g">>,
    <<"d","a","t","e">>, <<"h","i">> }

ClassifyBodies ==
  {Undefined, Null} \cup {Str(p) : p \in Phrases(BodyWords, MaxWords)}

\* Pieces of completion texts: the four markers, a marker in capitals, a price
\* that is neither, a plain word.
QuoteWords ==
  DeepMarkers \cup StandardMarkers \cup
    { <<"D","e","e","p"," ","C","l","e","a","n">>, <<"$","9","9">>, <<"o","k">> }

QuoteTexts == {Str(p) : p \in Phrases(QuoteWords, MaxWords)}

Intents == {"appointment", "sales", "support", "general"}

\* Sender addresses, character by character.
SenderAddresses == {Str(<<"+","1","5">>), Str(<<"+","1","6">>)}

\* Words of bodies handed to buildPrompt: plain words and the addresses.
PromptWords ==
  { <<"h","i">>, <<"c","a","l","l">>, <<"+","1","5">>, <<"+","1","6","0">> }

PromptBodies == {Str(p) : p \in Phrases(PromptWords, MaxWords)}

PendingCalls ==
  [fn : {"classifyIntent"}, body : ClassifyBodies, done : {FALSE}]
    \cup [fn : {"extractQuote"}, text : QuoteTexts, done : {FALSE}]
    \cup [fn : {"buildPrompt"}, intent : Intents, from : SenderAddresses,
          body : PromptBodies, done : {FALSE}]

InitCalls == Started /\ probe \in PendingCalls

CallClassifyIntent ==
  /\ probe.fn = "classifyIntent" /\ ~probe.done
  /\ probe' = [probe EXCEPT !.done = TRUE] @@ [result |-> classifyIntent(probe.body)]
  /\ UNCHANGED <<pc, ev, comp, log, clients, cache, apiKey>>

CallExtractQuote ==
  /\ probe.fn = "extractQuote" /\ ~probe.done
  /\ probe' = [probe EXCEPT !.done = TRUE] @@ [result |-> extractQuote(probe.text)]
  /\ UNCHANGED <<pc, ev, comp, log, clients, cache, apiKey>>

CallBuildPrompt ==
  /\ probe.fn = "buildPrompt" /\ ~probe.done
  /\ probe' = [probe EXCEPT !.done = TRUE]
                @@ [result |-> buildPrompt(probe.intent, probe.from, probe.body)]
  /\ UNCHANGED <<pc, ev, comp, log, clients, cache, apiKey>>

NextCalls ==
  \/ CallClassifyIntent
  \/ CallExtractQuote
  \/ CallBuildPrompt

SpecCalls == InitCalls /\ [][NextCalls]_vars

-----------------------------------------------------------------------------
(* Reading the log of a turn *)

At(t, o) == {i \in DOMAIN log[t] : log[t][i].op = o}
Count(t, o) == Cardinality(At(t, o))

Missing(x) == x = Undefined \/ x = Str(<<>>)

InvalidSms(t) ==
  ev[t].chan = "sms" /\ (Missing(ev[t].From) \/ Missing(ev[t].To) \/ Missing(ev[t].Body))
ValidSms(t) == ev[t].chan = "sms" /\ ~InvalidSms(t)
InvalidVoice(t) == ev[t].chan = "voice" /\ Missing(ev[t].CallSid)
ValidVoice(t) == ev[t].chan = "voice" /\ ~InvalidVoice(t)

ProviderOps == {"complete", "completed", "synthesize", "audio", "send", "sent", "broadcast"}

-----------------------------------------------------------------------------
(* C1 *)

\* C1: an SMS webhook with From, To or Body missing or empty, and a voice
\* webhook with CallSid missing, is answered with HTTP 400 and nothing else:
\* its log holds that one response and no completion call, no synthesis call,
\* no send and no broadcast.
C1_ValidationFirst ==
  \A t \in Turns :
    (InvalidSms(t) \/ InvalidVoice(t)) =>
      /\ Len(log[t]) = 1
      /\ log[t][1].op = "respond"
      /\ log[t][1].status = 400
      /\ \A i \in DOMAIN log[t] : log[t][i].op \notin ProviderOps
      /\ pc[t] = "done"

C1_Witness ==
  /\ \E t \in Turns :
       /\ InvalidSms(t) /\ ev[t].Body = Str(<<>>) /\ ~Missing(ev[t].From)
       /\ ~Missing(ev[t].To) /\ pc[t] = "done"
  /\ \E t \in Turns : InvalidVoice(t) /\ pc[t] = "done"

-----------------------------------------------------------------------------
(* C2 *)

Ack200(e) == e.op = "respond" /\ e.status = 200

\* C2: for a valid inbound SMS the first thing the handler does is write the
\* HTTP 200 acknowledgment; the completion call and the send come after it,
\* and the turn never writes a second response, whatever happens later.
C2_AckFirstOnce ==
  \A t \in Turns :
    ValidSms(t) =>
      /\ Ack200(log[t][1])
      /\ Count(t, "respond") = 1
      /\ \A i \in At(t, "complete") \cup At(t, "send") \cup At(t, "broadcast") : i > 1

C2_Witness ==
  \E t \in Turns :
    /\ ValidSms(t) /\ pc[t] = "done"
    /\ \E i \in At(t, "completed") : log[t][i].outcome.k = "throw"
    /\ \E i \in At(t, "sent") : ~log[t][i].ok
    /\ Count(t, "respond") = 1

-----------------------------------------------------------------------------
(* C3 *)

\* C3: every outbound send of a turn goes to the From of that turn's inbound
\* event, from that event's To, with the reply that the completion call made
\* for that event's Body resolved to; this holds for every interleaving of the
\* turns in flight.
C3_Correlation ==
  \A t \in Turns :
    \A i \in At(t, "send") :
      /\ ev[t].chan = "sms"
      /\ log[t][i].to = ev[t].From
      /\ log[t][i].from = ev[t].To
      /\ \E k \in At(t, "complete"), j \in At(t, "completed") :
           /\ k < j /\ j < i
           /\ log[t][k].prompt =
                buildPrompt(classifyIntent(ev[t].Body), ev[t].From, ev[t].Body)
           /\ log[t][j].result.state = "resolved"
           /\ log[t][i].body = log[t][j].result.val

C3_Witness ==
  \E t, u \in Turns :
    /\ t < u
    /\ pc[t] = "sms_sending" /\ pc[u] = "sms_sending"
    /\ ev[t].From # ev[u].From
    /\ \E i \in At(t, "send"), j \in At(u, "send") :
         /\ log[t][i].to # log[u][j].to
         /\ log[t][i].body # log[u][j].body

-----------------------------------------------------------------------------
(* C4 *)

Accepted(t) == ValidSms(t) \/ ValidVoice(t) \/ ev[t].chan = "relay"

\* The outbound dispatch attempts of a turn: SMS send calls, HTTP markup
\* responses, relay frames.
Dispatches(t) ==
  IF ev[t].chan = "sms" THEN At(t, "send")
  ELSE IF ev[t].chan = "voice" THEN At(t, "respond")
  ELSE At(t, "frame")

\* C4: an accepted inbound event makes at most one completion-provider call
\* and never more than one outbound dispatch attempt, and once its handler has
\* finished it has made exactly one dispatch attempt, also when the completion
\* provider or the send failed.
C4_DispatchedOnce ==
  \A t \in Turns :
    Accepted(t) =>
      /\ Count(t, "complete") <= 1
      /\ Cardinality(Dispatches(t)) <= 1
      /\ pc[t] = "done" => Cardinality(Dispatches(t)) = 1

C4_Witness ==
  /\ \E t \in Turns :
       /\ ValidSms(t) /\ pc[t] = "done"
       /\ \E i \in At(t, "completed") : log[t][i].outcome.k = "throw"
       /\ \E i \in At(t, "sent") : ~log[t][i].ok
       /\ Count(t, "send") = 1 /\ Count(t, "complete") = 1
  /\ \E t \in Turns :
       /\ ev[t].chan = "relay" /\ pc[t] = "done"
       /\ Count(t, "complete") = 0 /\ Count(t, "frame") = 1

-----------------------------------------------------------------------------
(* C5 *)

\* C5: every valid SMS turn that has finished has emitted exactly two
\* broadcasts, the inbound EventRecord and then the outbound EventRecord, both
\* after its send settled.
C5_TwoBroadcasts ==
  \A t \in Turns :
    (ValidSms(t) /\ pc[t] = "done") =>
      \E i, j \in At(t, "broadcast") :
        /\ i < j
        /\ At(t, "broadcast") = {i, j}
        /\ log[t][i].payload.type = "inbound"
        /\ log[t][j].payload.type = "outbound"
        /\ \E k \in At(t, "sent") : k < i

-----------------------------------------------------------------------------
(* C6 *)

\* The provider call failed or its response has not the shape the code reads.
VoiceProviderFailed(o) == o.k \in {"throw", "nocontent"} \/ o.text.t = "undefined"

-----------------------------------------------------------------------------
(* C7 *)

\* C7 as stated: when the provider call throws, the SMS path returns exactly
\* the string it also uses for an empty provider text, and the voice and relay
\* path returns a text that begins "I'd be happy to help you book a cleaning".
C7_SameSmsFallback ==
  \A t \in Turns :
    \A i \in At(t, "completed") :
      LET e == log[t][i]
      IN  e.outcome.k = "throw" =>
            IF ev[t].chan = "sms"
            THEN e.result.val =
                   <<"Thank you for contacting HyperClean. We will get back to you shortly.">>
            ELSE Head(e.result.val.text.v) = "I'd be happy to help you book a cleaning"

\* C7 amended: when the provider call throws (or its content is no string) the
\* SMS path returns exactly "Thank you for reaching out to HyperClean. We will
\* get back to you soon.", which is not the string used when the provider's
\* text is absent or empty after trimming ("Thank you for contacting
\* HyperClean. We will get back to you shortly."); the voice and relay path
\* returns a text that begins "I'd be happy to help you book a cleaning",
\* different from both.
C7_ChannelFallbacks ==
  \A t \in Turns :
    \A i \in At(t, "completed") :
      LET e == log[t][i]
          o == e.outcome
      IN  IF ev[t].chan = "sms"
          THEN /\ (o.k = "throw" \/ o.content.t = "array") =>
                    e.result.val =
                      <<"Thank you for reaching out to HyperClean. We will get back to you soon.">>
               /\ (o.k = "msg" /\ (o.content.t = "undefined"
                                   \/ (o.content.t = "string" /\ trim(o.content.v) = <<>>))) =>
                    e.result.val =
                      <<"Thank you for contacting HyperClean. We will get back to you shortly.">>
          ELSE VoiceProviderFailed(o) =>
                 /\ Head(e.result.val.text.v) = "I'd be happy to help you book a cleaning"
                 /\ e.result.val.text.v \notin
                      { <<"Thank you for reaching out to HyperClean. We will get back to you soon.">>,
                        <<"Thank you for contacting HyperClean. We will get back to you shortly.">> }

C7_Witness ==
  /\ \E t \in Turns :
       /\ ev[t].chan = "sms"
       /\ \E i \in At(t, "completed") :
            /\ log[t][i].outcome.k = "throw"
            /\ log[t][i].result.val = SmsErrorFallback
  /\ \E t \in Turns :
       /\ ev[t].chan = "voice"
       /\ \E i \in At(t, "completed") :
            /\ log[t][i].outcome.k = "throw"
            /\ log[t][i].result.val.text = Str(VoiceFallback)

-----------------------------------------------------------------------------
(* C8 *)

\* C8: the text of every completion result, on the SMS, voice and relay paths,
\* is non-empty and not only whitespace.
C8_TextNonEmpty ==
  \A t \in Turns :
    \A i \in At(t, "completed") :
      LET e == log[t][i]
      IN  e.result.state = "resolved" =>
            IF ev[t].chan = "sms"
            THEN trim(e.result.val) # <<>>
            ELSE e.result.val.text.t = "string" => trim(e.result.val.text.v) # <<>>

-----------------------------------------------------------------------------
(* C9 *)

HasPlay(doc) == \E i \in DOMAIN doc : doc[i] = "<Play>"
HasSay(doc) == \E i \in DOMAIN doc : doc[i] \in {"<Say>", "<Say voice=\"alice\">"}

\* The URLs generateAudio returned to the handler of turn t.
ReturnedUrls(t) ==
  { log[t][j].result.val :
      j \in {k \in At(t, "audio") :
               log[t][k].result.state = "resolved" /\ Truthy(log[t][k].result.val)} }

ReturnedNull(t) ==
  \E j \in At(t, "audio") :
    log[t][j].result.state = "resolved" /\ log[t][j].result.val = Null

\* C9: the markup of a voice response has a Play element exactly when
\* generateAudio returned a URL, and then it plays the URL of the completion
\* text; when generateAudio returned null it has a Say element with the
\* completion text; with no credential, or when synthesis failed, it has no
\* Play element.
C9_PlayIffUrl ==
  \A t \in Turns :
    ValidVoice(t) =>
      \A i \in At(t, "respond") :
        LET doc == log[t][i].body
        IN  /\ HasPlay(doc) <=> ReturnedUrls(t) # {}
            /\ HasPlay(doc) =>
                 /\ ~HasSay(doc)
                 /\ doc = <<XmlProlog, "<Response>", "<Play>", RenderUrl, "/audio/">>
                            \o textHash(comp[t].text.v)
                            \o <<".mp3", "</Play>", "</Response>">>
            /\ ReturnedNull(t) =>
                 doc = <<XmlProlog, "<Response>", "<Say voice=\"alice\">">>
                         \o ToText(comp[t].text) \o <<"</Say>", "</Response>">>
            /\ ~apiKey => ~HasPlay(doc)

C9_Witness ==
  /\ apiKey
  /\ \E t \in Turns :
       /\ ValidVoice(t) /\ pc[t] = "done"
       /\ \E i \in At(t, "respond") : HasPlay(log[t][i].body)
  /\ \E t \in Turns :
       /\ ValidVoice(t) /\ pc[t] = "done"
       /\ Count(t, "synthesize") = 1 /\ ReturnedNull(t)
       /\ \E i \in At(t, "respond") : HasSay(log[t][i].body)

-----------------------------------------------------------------------------
(* C10 *)

\* A failure reached the try block of the handler of turn t.
HandlerFailure(t) ==
  \/ \E j \in At(t, "completed") : log[t][j].result.state = "rejected"
  \/ \E j \in At(t, "audio") : log[t][j].result.state = "rejected"

\* C10: a voice request that passed validation never gets two responses and,
\* once its handler has finished, has got exactly one and no failure was left
\* unhandled; when a failure reached the handler's try block, that response is
\* the fixed markup with the apology and the transfer cue.
C10_VoiceFallback ==
  \A t \in Turns :
    ValidVoice(t) =>
      /\ Count(t, "respond") <= 1
      /\ Count(t, "unhandled") = 0
      /\ pc[t] = "done" => Count(t, "respond") = 1
      /\ (HandlerFailure(t) /\ pc[t] = "done") =>
           \A i \in At(t, "respond") :
             log[t][i].body =
               <<XmlProlog, "<Response>", "<Say>",
                 "I apologize, but I need to transfer you. One moment.",
                 "</Say>", "</Response>">>

C10_Witness ==
  \E t \in Turns :
    /\ ValidVoice(t) /\ pc[t] = "done" /\ HandlerFailure(t)
    /\ Count(t, "respond") = 1

-----------------------------------------------------------------------------
(* C18 *)

Called(fn) == probe.fn = fn /\ probe.done

\* The keyword groups a body matches, read off the lower-cased text.
Mentions(body, words) ==
  /\ body.t = "string"
  /\ \E w \in words : MatchesWord(toLowerCase(body.v), w)

\* C18: classifyIntent returns one of appointment, sales, support, general for
\* every body, the empty string, null and undefined included; a body with an
\* appointment keyword is appointment whatever else it holds, otherwise a body
\* with a price/quote keyword is sales, otherwise a body with a
\* problem/complaint keyword is support, and a body with no keyword is general.
C18_TotalAndOrdered ==
  Called("classifyIntent") =>
    LET b == probe.body
        r == probe.result
    IN  /\ r \in {"appointment", "sales", "support", "general"}
        /\ Mentions(b, AppointmentWords) => r = "appointment"
        /\ ~Mentions(b, AppointmentWords) /\ Mentions(b, SalesWords) => r = "sales"
        /\ (~Mentions(b, AppointmentWords) /\ ~Mentions(b, SalesWords)
              /\ Mentions(b, SupportWords)) => r = "support"
        /\ (~Mentions(b, AppointmentWords) /\ ~Mentions(b, SalesWords)
              /\ ~Mentions(b, SupportWords)) => r = "general"
        /\ b \in {Undefined, Null, Str(<<>>)} => r = "general"

\* A body naming a price/quote keyword first, then a complaint keyword, then an
\* appointment keyword has been classified as appointment.
C18_Witness ==
  /\ Called("classifyIntent")
  /\ probe.body = Str(<<"Q","U","O","T","E"," ","h","e","l","p"," ","b","o","o","k">>)
  /\ probe.result = "appointment"

-----------------------------------------------------------------------------
(* C19 *)

Contains(text, markers) == \E m \in markers : includes(text.v, m)

\* C19: extractQuote returns the deep quote of 149 for a text containing "$149"
\* or "deep clean", also when a standard marker is present; otherwise the
\* standard quote of 129 for a text containing "$129" or "standard clean";
\* null for a text with none of the four markers; it returns no other quote.
C19_QuoteOrder ==
  Called("extractQuote") =>
    LET x == probe.text
        q == probe.result
        deep == [t |-> "object", total |-> 149, service |-> "deep"]
        standard == [t |-> "object", total |-> 129, service |-> "standard"]
    IN  /\ q \in {deep, standard, Null}
        /\ Contains(x, DeepMarkers) => q = deep
        /\ ~Contains(x, DeepMarkers) /\ Contains(x, StandardMarkers) => q = standard
        /\ ~Contains(x, DeepMarkers) /\ ~Contains(x, StandardMarkers) => q = Null

\* A text naming "$129" before "deep clean" has been given the deep quote.
C19_Witness ==
  /\ Called("extractQuote")
  /\ probe.text = Str(<<"$","1","2","9"," ","d","e","e","p"," ","c","l","e","a","n">>)
  /\ probe.result.t = "object"
  /\ probe.result.service = "deep"

-----------------------------------------------------------------------------
(* C20 *)

\* Number of places where sub occurs in s.
Occurrences(s, sub) ==
  Cardinality({i \in 1..(Len(s) - Len(sub) + 1) : SubSeq(s, i, i + Len(sub) - 1) = sub})

\* C20: the prompt contains the raw text verbatim and the sender address
\* exactly once.
C20_ExactlyOnce ==
  Called("buildPrompt") =>
    /\ includes(probe.result, probe.body.v)
    /\ Occurrences(probe.result, probe.from.v) = 1

\* C20: the prompt contains the raw text verbatim, between the two line breaks
\* that follow the introduction, and the sender address is written once outside
\* the raw text: it occurs once more in the prompt than in the raw text, so
\* exactly once when the raw text does not contain it.
C20_VerbatimSenderOnce ==
  Called("buildPrompt") =>
    LET prompt == probe.result
        body == probe.body.v
        from == probe.from.v
    IN  /\ \E i \in 1..Len(prompt) :
             /\ prompt[i] = " sent the following message:\n\n"
             /\ SubSeq(prompt, i + 1, i + Len(body)) = body
             /\ prompt[i + Len(body) + 1] = "\n\n"
        /\ Occurrences(prompt, from) = 1 + Occurrences(body, from)
        /\ ~includes(body, from) => Occurrences(prompt, from) = 1

\* A prompt has been built for a body that does not name the sender.
C20_Witness ==
  /\ Called("buildPrompt")
  /\ probe.from = Str(<<"+","1","5">>)
  /\ probe.body = Str(<<"c","a","l","l"," ","+","1","6","0">>)
  /\ Occurrences(probe.result, probe.from.v) = 1

-----------------------------------------------------------------------------
(* C11 *)

OpenTags == {"<Response>", "<Play>", "<Say>", "<Say voice=\"alice\">"}
CloseTags == {"</Response>", "</Play>", "</Say>"}

ElementName(tag) ==
  CASE tag \in {"<Response>", "</Response>"} -> "Response"
    [] tag \in {"<Play>", "</Play>"} -> "Play"
    [] OTHER -> "Say"

\* Whether doc[i..] is the rest of a well-formed document, open being the
\* elements not yet closed and rooted whether the root element was opened:
\* the XML declaration comes first, tags nest, the document has one root
\* element, and character data lies inside an element and holds no bare '<'
\* or '&'.
RECURSIVE WellFormedFrom(_, _, _, _)
WellFormedFrom(doc, i, open, rooted) ==
  IF i > Len(doc) THEN open = <<>> /\ rooted
  ELSE LET c == doc[i]
       IN  CASE c = XmlProlog -> i = 1 /\ WellFormedFrom(doc, i + 1, open, rooted)
             [] c \in OpenTags ->
                  /\ open # <<>> \/ ~rooted
                  /\ WellFormedFrom(doc, i + 1, <<ElementName(c)>> \o open, TRUE)
             [] c \in CloseTags ->
                  /\ open # <<>>
                  /\ Head(open) = ElementName(c)
                  /\ WellFormedFrom(doc, i + 1, Tail(open), rooted)
             [] c \in {"<", "&"} -> FALSE
             [] OTHER -> open # <<>> /\ WellFormedFrom(doc, i + 1, open, rooted)

WellFormed(doc) == WellFormedFrom(doc, 1, <<>>, FALSE)

\* C11: every markup document the voice endpoint returns (every response of
\* status 200 of a voice turn) is well-formed XML, whatever the completion
\* text and the audio URL are.
C11_WellFormedMarkup ==
  \A t \in Turns :
    ev[t].chan = "voice" =>
      \A i \in At(t, "respond") :
        log[t][i].status = 200 => WellFormed(log[t][i].body)

-----------------------------------------------------------------------------
(* C12 *)

IsReplyFrame(e) == e.op = "frame" /\ DOMAIN e = {"op", "text", "audioUrl", "quote"}
IsErrorFrame(e) == e = [op |-> "frame", error |-> "Processing failed"]

Undecodable(t) == ev[t].chan = "relay" /\ ev[t].data # "message"

\* C12: a relay frame is never answered with two frames and, once its handler
\* has finished, has been answered with exactly one; that frame is a reply
\* frame {text, audioUrl, quote} or the error frame; it is the error frame when
\* the received frame could not be decoded or a failure reached the handler;
\* and the handler never closes the socket.
C12_OneFramePerFrame ==
  \A t \in Turns :
    ev[t].chan = "relay" =>
      /\ Count(t, "frame") <= 1
      /\ pc[t] = "done" => Count(t, "frame") = 1
      /\ \A i \in At(t, "frame") :
           /\ IsReplyFrame(log[t][i]) \/ IsErrorFrame(log[t][i])
           /\ (Undecodable(t) \/ HandlerFailure(t)) => IsErrorFrame(log[t][i])
           /\ i = Len(log[t])
      /\ Count(t, "close") = 0
      /\ Count(t, "unhandled") = 0

\* One relay frame that could not be decoded and one whose audio resolution
\* rejected have each been answered with the error frame.
C12_Witness ==
  \E t, u \in Turns :
    /\ Undecodable(t) /\ pc[t] = "done"
    /\ IsErrorFrame(log[t][Len(log[t])])
    /\ ev[u].chan = "relay" /\ ~Undecodable(u) /\ pc[u] = "done"
    /\ \E j \in At(u, "audio") : log[u][j].result.state = "rejected"
    /\ IsErrorFrame(log[u][Len(log[u])])

-----------------------------------------------------------------------------
(* C13 *)

\* The calls of generateAudio of turn t that found the asset of their text in
\* CACHE_DIR.
CacheHits(t) == {i \in At(t, "resolve") : log[t][i].cached}

\* What generateAudio returned for the call logged at position i of turn t.
Returned(t, i) == log[t][i + 1]

-----------------------------------------------------------------------------
(* C14 *)

\* The turns whose provider call ended in a stored asset for the hash h.
Synthesized(h) ==
  {t \in Turns :
     /\ Count(t, "synthesize") = 1
     /\ \E k \in At(t, "audio") :
          /\ log[t][k].text.t = "string"
          /\ textHash(log[t][k].text.v) = h
          /\ log[t][k].result = Resolved(AudioUrl(log[t][k].text.v))}

\* C14: every call of generateAudio resolves, to null or to the URL of its
\* text, and never rejects; with no credential it resolves to null and the
\* provider is not called; a cache entry exists only for a text whose
\* synthesis succeeded (or was there when the process started), so a failed
\* provider call leaves none.
C14_NeverThrows ==
  /\ \A t \in Turns :
       \A i \in At(t, "audio") :
         /\ log[t][i].result.state = "resolved"
         /\ \/ log[t][i].result.val = Null
            \/ log[t][i].result.val = AudioUrl(log[t][i].text.v)
         /\ ~apiKey => log[t][i].result.val = Null /\ Count(t, "synthesize") = 0
  /\ \A h \in cache : (\E c \in StartCaches : h \in c) \/ Synthesized(h) # {}

-----------------------------------------------------------------------------
(* C15 *)

\* The outbound dispatches of an accepted turn that carry a reply: the SMS
\* send, the voice markup response, the relay reply frame.
ReplyDispatches(t) ==
  IF ev[t].chan = "relay" THEN {i \in At(t, "frame") : IsReplyFrame(log[t][i])}
  ELSE IF Accepted(t) THEN Dispatches(t)
  ELSE {}

\* C15: in every turn the dispatch comes after the turn's completion call has
\* settled; on the voice and relay channels it also comes after the audio
\* resolution has settled (on the relay channel, when the text is not empty),
\* and no provider call of the turn is made or pending when it is dispatched.
C15_DispatchLast ==
  \A t \in Turns :
    \A i \in ReplyDispatches(t) :
      /\ \E j \in At(t, "completed") : j < i
      /\ \A k \in At(t, "complete") \cup At(t, "resolve") \cup At(t, "synthesize") : k < i
      /\ \A k \in At(t, "resolve") : \E m \in At(t, "audio") : k < m /\ m < i
      /\ ev[t].chan = "voice" => \E m \in At(t, "audio") : m < i
      /\ (ev[t].chan = "relay" /\ Truthy(log[t][i].text)) =>
           \E m \in At(t, "audio") : m < i

\* A voice turn that came second has been answered after its completion and
\* its synthesis, while the relay turn that came first still waits for its
\* synthesis.
C15_Witness ==
  /\ MaxTurns >= 2
  /\ ev[1].chan = "relay" /\ pc[1] = "fetching"
  /\ ev[2].chan = "voice" /\ pc[2] = "done"
  /\ Count(2, "synthesize") = 1
  /\ \E i \in ReplyDispatches(2) : i = Len(log[2]) /\ log[2][i - 1].op = "audio"

-----------------------------------------------------------------------------
(* C16 *)

-----------------------------------------------------------------------------
(* C17 *)

\* The turn has got its response: a markup response of status 200 on the voice
\* channel, a frame on the relay channel.
Answered(t) ==
  \/ ev[t].chan = "voice" /\ \E i \in At(t, "respond") : log[t][i].status = 200
  \/ ev[t].chan = "relay" /\ Count(t, "frame") = 1

\* C17: when every provider call settles, every voice request that passed
\* validation is eventually answered with a markup response and every relay
\* frame is eventually answered with a frame.
C17_EventuallyAnswered ==
  \A t \in Turns : (ValidVoice(t) \/ ev[t].chan = "relay") ~> Answered(t)

\* A voice turn and a relay turn have both been answered after their synthesis
\* calls settled.
C17_Witness ==
  \E t, u \in Turns :
    /\ ValidVoice(t) /\ Answered(t) /\ Count(t, "synthesize") = 1
    /\ ev[u].chan = "relay" /\ Answered(u) /\ Count(u, "synthesize") = 1

-----------------------------------------------------------------------------
(* C21 *)

\* The cache writes of all turns: <<text, file>>.
WritesOf(t) == {<<log[t][i].text, log[t][i].file>> : i \in At(t, "write")}

Writes == UNION {WritesOf(t) : t \in Turns}

\* The URLs the resolutions of turn t returned: <<text, URL>>.
UrlsOf(t) ==
  {<<log[t][i].text, log[t][i].result.val>> :
     i \in {k \in At(t, "audio") :
              log[t][k].result.state = "resolved" /\ Truthy(log[t][k].result.val)}}

Urls == UNION {UrlsOf(t) : t \in Turns}

\* Entries per text, URLs per text, and entries of different texts.
OneEntryPerText ==
  /\ \A w, x \in Writes : w[1] = x[1] <=> w[2] = x[2]
  /\ \A w \in Writes : w[2] = textHash(w[1].v)
  /\ \A a, b \in Urls : a[1] = b[1] => a[2] = b[2]

\* A step of a handler (the log grows) removes no cache entry and adds at most
\* the entry of the text the turn just synthesized.
WritesOwnEntryOnly ==
  log' # log =>
    /\ cache \subseteq cache'
    /\ \A h \in cache' \ cache :
         \E t \in Turns :
           /\ pc[t] = "buffering" /\ pc'[t] = "done"
           /\ h = textHash(comp[t].text.v)

\* C21: in every interleaving, all cache writes for one text go to one entry,
\* the entry of that text's hash, writes for different texts go to different
\* entries, all resolutions of one text that return a URL return the same
\* URL, and a handler step never removes an entry nor adds one other than the
\* entry of its own text.
C21_ConcurrentResolutions == []OneEntryPerText /\ [][WritesOwnEntryOnly]_vars

\* Two turns have resolved the same text concurrently: both invoked the
\* provider, both wrote, both returned the same URL, and the cache holds one
\* entry.
C21_Witness ==
  \E t, u \in Turns :
    /\ t # u
    /\ Count(t, "synthesize") = 1 /\ Count(u, "synthesize") = 1
    /\ Count(t, "write") = 1 /\ Count(u, "write") = 1
    /\ comp[t].text = Str(<<" ">>) /\ comp[u].text = Str(<<" ">>)
    /\ pc[t] = "done" /\ pc[u] = "done"
    /\ ReturnedUrls(t) = ReturnedUrls(u)
    /\ cache = {textHash(<<" ">>)}

-----------------------------------------------------------------------------
(* C22 *)

\* What the providers answered to turn t, read from the turn's own log: the
\* completion result, and what generateAudio settled to (null when it was not
\* called).
OwnCompletion(t) == log[t][CHOOSE j \in At(t, "completed") : TRUE].result
OwnAudio(t) ==
  IF At(t, "audio") = {} THEN Resolved(Null)
  ELSE log[t][CHOOSE j \in At(t, "audio") : TRUE].result

\* The outbound action of a turn is written in terms of the turn's own event,
\* the provider responses to it and the cache entry of its own text.
OutboundFromOwnEvent ==
  \A t \in Turns :
    /\ \A i \in At(t, "send") :
         log[t][i] = [op |-> "send", to |-> ev[t].From, from |-> ev[t].To,
                      body |-> OwnCompletion(t).val]
    /\ \A i \in At(t, "broadcast") :
         /\ {log[t][i].payload.from, log[t][i].payload.to} = {ev[t].From, ev[t].To}
         /\ log[t][i].payload.body \in {ev[t].Body, Str(OwnCompletion(t).val)}
    /\ \A i \in At(t, "resolve") \cup At(t,"synthesize") \cup At(t, "audio") \cup At(t, "write") :
         log[t][i].text = OwnCompletion(t).val.text
    /\ \A i \in At(t, "audio") :
         log[t][i].result.state = "resolved" =>
           log[t][i].result.val \in {Null, AudioUrl(OwnCompletion(t).val.text.v)}
    /\ (ValidVoice(t) /\ At(t, "completed") # {}) =>
         \A i \in At(t, "respond") :
           log[t][i].body =
             IF OwnAudio(t).state = "rejected" THEN VoiceErrorTwiml
             ELSE IF Truthy(OwnAudio(t).val) THEN PlayTwiml(OwnAudio(t).val)
             ELSE SayTwiml(OwnCompletion(t).val.text)
    /\ (ev[t].chan = "relay" /\ ~Undecodable(t)) =>
         \A i \in At(t, "frame") :
           log[t][i] =
             IF OwnAudio(t).state = "rejected" THEN [op |-> "frame", error |-> "Processing failed"]
             ELSE [op |-> "frame", text |-> OwnCompletion(t).val.text,
                   audioUrl |-> OwnAudio(t).val, quote |-> OwnCompletion(t).val.quote]

\* A step of the handler of one turn leaves every other turn, the observer
\* set and the credential as they are, keeps its own event, and changes the
\* cache at most by adding the entry of its own completion text.
TouchesOwnTurnOnly ==
  log' # log =>
    \E t \in Turns :
      /\ \A u \in Turns \ {t} :
           pc'[u] = pc[u] /\ ev'[u] = ev[u] /\ comp'[u] = comp[u] /\ log'[u] = log[u]
      /\ pc[t] # "idle" => ev'[t] = ev[t]
      /\ clients' = clients
      /\ apiKey' = apiKey
      /\ cache \subseteq cache'
      /\ \A h \in cache' \ cache : h = textHash(comp[t].text.v)

\* C22: handling a turn changes no shared state except, possibly, adding the
\* cache entry of its own reply text; it never changes the observer set nor
\* another turn; and what it sends, answers, writes back and broadcasts is
\* determined by its own event, the provider responses to it and the cache.
C22_TurnsIndependent == []OutboundFromOwnEvent /\ [][TouchesOwnTurnOnly]_vars

\* An SMS turn and a voice turn have both finished while an observer is
\* connected: the SMS was sent and broadcast, the voice turn synthesized its
\* text, stored the asset and answered with Play.
C22_Witness ==
  \E t, u \in Turns :
    /\ ValidSms(t) /\ pc[t] = "done" /\ Count(t, "broadcast") = 2
    /\ \E i \in At(t, "broadcast") : log[t][i].sentTo # {}
    /\ ValidVoice(u) /\ pc[u] = "done" /\ Count(u, "write") = 1
    /\ HasPlay(log[u][Len(log[u])].body)
    /\ textHash(comp[u].text.v) \in cache

====
